---- MODULE Spec2Model ----
(***************************************************************************)
(* A model of code_quality.py: the SonarCloud adapter                      *)
(* (SonarCloudAnalyzer), and the facade (CodeQualityAnalyzer) with its     *)
(* local rule checker and its generative-review entry point.               *)
(*                                                                         *)
(* Spec       the remote adapter, driven through analyze_with_sonarcloud   *)
(*            by two callers that may be in flight at the same time        *)
(* SpecFacade one caller invoking the local analysis and analyze_with_ai   *)
(* SpecSummary the two summary functions, on inputs drawn at the start     *)
(***************************************************************************)
EXTENDS Integers, Sequences, FiniteSets, TLC

VARIABLES
    sonarcloud_token,   \* CodeQualityAnalyzer.sonarcloud_token ("" = None)
    call,               \* per caller: the locals of SonarCloudAnalyzer.analyze_code
    steps,              \* per caller: the requests made and the wait taken, in order
    gemini_api_key,     \* CodeQualityAnalyzer.gemini_api_key ("" = None or empty)
    facade,             \* the facade caller: the entry point, its input, its outcome
    net,                \* requests sent to the generative endpoint by the last call
    summary_call        \* a summary function under test: its input, then its output

vars == <<sonarcloud_token, call, steps, gemini_api_key, facade, net, summary_call>>

remoteVars == <<sonarcloud_token, call, steps>>
facadeVars == <<gemini_api_key, facade, net>>
summaryVars == <<summary_call>>

----------------------------------------------------------------------------
(* Bounds *)

\* how many distinct values uuid4().hex[:8] can take in the model
MaxKeys == 2

----------------------------------------------------------------------------
(* The remote service and the transport, as the adapter sees them *)

Callers == {"c1", "c2"}

\* what requests.get / requests.post can do: answer with a status, or raise
Statuses == {200, 201, 202, 500}
Replies ==
    [exc : {FALSE}, status : Statuses] \cup [exc : {TRUE}, status : {0}]

\* f"temp-analysis-{uuid.uuid4().hex[:8]}": any value of the identifier space
ProjectKeys == 1..MaxKeys

Filenames == {"", "main.py"}

\* the "issues" array / the "hotspots" array of a reply body
IssueA == [line |-> 3, message |-> "Remove this unused variable",
           severity |-> "MAJOR", type |-> "BUG", rule |-> "python:S1481"]
HotspotA == [line |-> 7, message |-> "Make sure this is safe",
             ruleKey |-> "python:S2245"]

IssueLists == {<< >>, <<IssueA>>}
HotspotLists == {<< >>, <<HotspotA>>}

\* the measures of a reply body, as {metric: value} with the values as text
EmptyMap == [m \in {} |-> ""]
MetricMaps ==
    { EmptyMap,
      [ncloc |-> "0", bugs |-> "2"],
      [ncloc |-> "12", bugs |-> "1", vulnerabilities |-> "2",
       code_smells |-> "0", duplicated_lines_density |-> "12.5"],
      [ncloc |-> "12", complexity |-> "n/a"] }

----------------------------------------------------------------------------
(* Outcomes of a helper: it returns a value or raises *)

Returned(v) == [raised |-> FALSE, msg |-> "", value |-> v]
Raised(m) == [raised |-> TRUE, msg |-> m, value |-> << >>]

----------------------------------------------------------------------------
(* int(), float() and str.lower() on the texts the model uses *)

IntTable == [t \in {"0", "1", "2", "10", "12"} |->
                CASE t = "0" -> 0 [] t = "1" -> 1 [] t = "2" -> 2
                  [] t = "10" -> 10 [] t = "12" -> 12]

\* floats are kept in tenths: float("12.5") is 125
FloatTable == [t \in {"0", "1", "2", "10", "10.1", "12", "12.5"} |->
                CASE t = "12.5" -> 125 [] t = "10.1" -> 101
                  [] OTHER -> 10 * IntTable[t]]

IsInt(t) == t \in DOMAIN IntTable
IsFloat(t) == t \in DOMAIN FloatTable
IntOf(t) == IntTable[t]
FloatOf(t) == FloatTable[t]

Lower(t) ==
    CASE t = "MAJOR" -> "major"
      [] t = "BUG" -> "bug"
      [] t = "CODE_SMELL" -> "code_smell"
      [] OTHER -> t

\* metrics.get(k, 0), the default written as text
MetricGet(metrics, k) == IF k \in DOMAIN metrics THEN metrics[k] ELSE "0"

----------------------------------------------------------------------------
(* SonarCloudAnalyzer: the helpers, each on the reply its request got *)

\* a variant that does not look at the status of the reply
_create_project_unchecked(reply) ==
    IF reply.exc THEN Raised("ConnectionError") ELSE Returned(<< >>)

_create_project(reply) ==
    IF reply.exc THEN Raised("ConnectionError")
    ELSE IF reply.status \notin {200, 201}
         THEN Raised("Failed to create project: <response.text>")
         ELSE Returned(<< >>)

\* open(file_path, 'w') in the temporary directory: the directory itself when
\* the filename is empty
WriteSourceFile(filename) ==
    IF filename = "" THEN Raised("IsADirectoryError") ELSE Returned(<< >>)

\* a variant of the first request that does not look at the status
_run_scanner_index_unchecked(reply) ==
    IF reply.exc THEN Raised("ConnectionError") ELSE Returned(<< >>)

\* _run_scanner, first request: POST source/index
_run_scanner_index(reply) ==
    IF reply.exc THEN Raised("ConnectionError")
    ELSE IF reply.status \notin {200, 201}
         THEN Raised("Failed to run analysis: <response.text>")
         ELSE Returned(<< >>)

\* a variant of the second request that does not look at the status
_run_scanner_submit_unchecked(reply) ==
    IF reply.exc THEN Raised("ConnectionError") ELSE Returned(<< >>)

\* _run_scanner, second request: POST analysis/submit
_run_scanner_submit(reply) ==
    IF reply.exc THEN Raised("ConnectionError")
    ELSE IF reply.status \notin {200, 201, 202}
         THEN Raised("Failed to submit analysis: <response.text>")
         ELSE Returned(<< >>)

_get_issues(reply, body) ==
    IF reply.exc THEN Raised("ConnectionError")
    ELSE IF reply.status = 200
         THEN Returned(body)
         ELSE Raised("Failed to get issues: <response.text>")

_get_security_hotspots(reply, body) ==
    IF reply.exc THEN Raised("ConnectionError")
    ELSE IF reply.status = 200
         THEN Returned(body)
         ELSE Returned(<< >>)

_get_metrics(reply, body) ==
    IF reply.exc THEN Raised("ConnectionError")
    ELSE IF reply.status = 200
         THEN Returned(body)
         ELSE Returned(EmptyMap)

\* the status of the reply is not looked at; requests.post itself can raise
_delete_project(reply) ==
    IF reply.exc THEN Raised("ConnectionError") ELSE Returned(<< >>)

----------------------------------------------------------------------------
(* SonarCloudAnalyzer: the result *)

SelectPhrases(ps) == SelectSeq(ps, LAMBDA p : p.on)

\* _generate_summary: a sentence is kept as its fixed text, the phrases joined
\* into it (each a count and its wording) and the line count put into it
_generate_summary(issues, metrics) ==
    IF ~IsInt(MetricGet(metrics, "ncloc")) THEN Raised("ValueError")
    ELSE LET loc == IntOf(MetricGet(metrics, "ncloc")) IN
    IF loc = 0
    THEN Returned([text |-> "No code detected for analysis.",
                   phrases |-> << >>, loc |-> 0])
    ELSE IF \/ ~IsInt(MetricGet(metrics, "bugs"))
            \/ ~IsInt(MetricGet(metrics, "vulnerabilities"))
            \/ ~IsInt(MetricGet(metrics, "code_smells"))
            \/ ~IsFloat(MetricGet(metrics, "duplicated_lines_density"))
    THEN Raised("ValueError")
    ELSE LET bugs == IntOf(MetricGet(metrics, "bugs"))
             vulnerabilities == IntOf(MetricGet(metrics, "vulnerabilities"))
             code_smells == IntOf(MetricGet(metrics, "code_smells"))
             duplication == FloatOf(MetricGet(metrics, "duplicated_lines_density"))
             quality_issues == SelectPhrases(<<
                 [on |-> bugs > 0, n |-> bugs,
                  words |-> IF bugs > 1 THEN " potential bugs"
                                        ELSE " potential bug"],
                 [on |-> vulnerabilities > 0, n |-> vulnerabilities,
                  words |-> IF vulnerabilities > 1 THEN " securities issues"
                                                   ELSE " security issue"],
                 [on |-> code_smells > 0, n |-> code_smells,
                  words |-> IF code_smells > 1 THEN " code smells"
                                               ELSE " code smell"],
                 [on |-> duplication > 100, n |-> duplication,
                  words |-> "% code duplication"] >>)
         IN IF quality_issues = << >>
            THEN Returned([text |-> "No significant issues found in <loc> lines of code. Good job!",
                           phrases |-> << >>, loc |-> loc])
            ELSE Returned([text |-> "Found <phrases> in <loc> lines of code.",
                           phrases |-> quality_issues, loc |-> loc])

FormatIssue(issue) ==
    [line |-> issue.line, message |-> issue.message,
     severity |-> Lower(issue.severity), type |-> Lower(issue.type), rule |-> issue.rule]

FormatHotspot(hotspot) ==
    [line |-> hotspot.line, message |-> "Security hotspot: " \o hotspot.message,
     severity |-> "warning", type |-> "security",
     rule |-> hotspot.ruleKey]

\* the two loops of _format_results
FormatIssues(issues) == [i \in 1..Len(issues) |-> FormatIssue(issues[i])]
FormatHotspots(hotspots) == [i \in 1..Len(hotspots) |-> FormatHotspot(hotspots[i])]

FormattedMetricKeys ==
    {"ncloc", "complexity", "bugs", "vulnerabilities", "code_smells",
     "security_hotspots"}

\* _format_results: the issues, then the hotspots; the summary; the metrics,
\* each converted (a value that is no number makes the conversion raise)
_format_results(issues, hotspots, metrics) ==
    LET formatted_issues ==
            FormatIssues(issues) \o FormatHotspots(hotspots)
        summary == _generate_summary(formatted_issues, metrics)
    IN  IF summary.raised THEN summary
        ELSE IF \/ \E k \in FormattedMetricKeys : ~IsInt(MetricGet(metrics, k))
                \/ ~IsFloat(MetricGet(metrics, "duplicated_lines_density"))
                \/ ~IsFloat(MetricGet(metrics, "coverage"))
        THEN Raised("ValueError")
        ELSE Returned(
            [issues |-> formatted_issues,
             metrics |->
                [lines_of_code |-> IntOf(MetricGet(metrics, "ncloc")),
                 complexity |-> IntOf(MetricGet(metrics, "complexity")),
                 bugs |-> IntOf(MetricGet(metrics, "bugs")),
                 vulnerabilities |-> IntOf(MetricGet(metrics, "vulnerabilities")),
                 code_smells |-> IntOf(MetricGet(metrics, "code_smells")),
                 security_hotspots |-> IntOf(MetricGet(metrics, "security_hotspots")),
                 duplicate_lines_percentage |->
                     FloatOf(MetricGet(metrics, "duplicated_lines_density")),
                 coverage |-> IF "coverage" \in DOMAIN metrics
                              THEN <<FloatOf(metrics["coverage"])>>
                              ELSE << >>],
             summary |-> summary.value])

\* the except clause of analyze_code
SonarCloudError(msg) ==
    [error |-> "SonarCloud analysis failed", message |-> msg]

----------------------------------------------------------------------------
(* SonarCloudAnalyzer.analyze_code, one action per statement that reaches   *)
(* the remote service or the file system; callers interleave between them  *)

NoResult == << >>

IdleCall ==
    [pc |-> "idle", project_key |-> 0, filename |-> "",
     issues |-> << >>, hotspots |-> << >>, metrics |-> EmptyMap,
     result |-> NoResult]

\* how a request ended, as HTTP tells it: answered with a 2xx status, answered
\* with another status, or not answered (requests raised)
Answer(reply) ==
    IF reply.exc THEN "exception"
    ELSE IF reply.status \in 200..299 THEN "ok" ELSE "rejected"

\* one more step of caller c: the request made (for the project it names) and
\* how it ended; the wait is a step that always ends
Step(c, op, reply) ==
    steps' = [steps EXCEPT ![c] =
                Append(@, [op |-> op, project |-> call[c].project_key,
                           answer |-> Answer(reply)])]

NoReply == [exc |-> FALSE, status |-> 200]

\* the next statement of the try block
Goto(c, pc) == call' = [call EXCEPT ![c].pc = pc]

\* the call returns value r
Return(c, r) == call' = [call EXCEPT ![c].pc = "done", ![c].result = r]

\* CodeQualityAnalyzer.analyze_with_sonarcloud, and the first statement of
\* SonarCloudAnalyzer.analyze_code: the project key
AnalyzeWithSonarcloud(c) ==
    /\ call[c].pc = "idle"
    /\ \E filename \in Filenames, key \in ProjectKeys :
        IF sonarcloud_token = ""
        THEN call' = [call EXCEPT ![c].pc = "done", ![c].filename = filename,
                ![c].result =
                    [error |-> "SonarCloud token is required for SonarCloud analysis"]]
        ELSE call' = [call EXCEPT ![c].pc = "create", ![c].filename = filename,
                                  ![c].project_key = key]
    /\ UNCHANGED <<sonarcloud_token, steps>>
    /\ UNCHANGED <<facadeVars, summaryVars>>

CreateProject(c) ==
    /\ call[c].pc = "create"
    /\ \E reply \in Replies :
        /\ Step(c, "create", reply)
        /\ LET r == _create_project(reply) IN
            IF r.raised THEN Return(c, SonarCloudError(r.msg)) ELSE Goto(c, "write")
    /\ UNCHANGED sonarcloud_token
    /\ UNCHANGED <<facadeVars, summaryVars>>

WriteSource(c) ==
    /\ call[c].pc = "write"
    /\ LET r == WriteSourceFile(call[c].filename) IN
        IF r.raised THEN Return(c, SonarCloudError(r.msg)) ELSE Goto(c, "submit")
    /\ UNCHANGED <<sonarcloud_token, steps>>
    /\ UNCHANGED <<facadeVars, summaryVars>>

SubmitSource(c) ==
    /\ call[c].pc = "submit"
    /\ \E reply \in Replies :
        /\ Step(c, "submit", reply)
        /\ LET r == _run_scanner_index(reply) IN
            IF r.raised THEN Return(c, SonarCloudError(r.msg)) ELSE Goto(c, "trigger")
    /\ UNCHANGED sonarcloud_token
    /\ UNCHANGED <<facadeVars, summaryVars>>

TriggerAnalysis(c) ==
    /\ call[c].pc = "trigger"
    /\ \E reply \in Replies :
        /\ Step(c, "trigger", reply)
        /\ LET r == _run_scanner_submit(reply) IN
            IF r.raised THEN Return(c, SonarCloudError(r.msg)) ELSE Goto(c, "wait")
    /\ UNCHANGED sonarcloud_token
    /\ UNCHANGED <<facadeVars, summaryVars>>

\* time.sleep(5)
Wait(c) ==
    /\ call[c].pc = "wait"
    /\ Step(c, "wait", NoReply)
    /\ Goto(c, "issues")
    /\ UNCHANGED sonarcloud_token
    /\ UNCHANGED <<facadeVars, summaryVars>>

GetIssues(c) ==
    /\ call[c].pc = "issues"
    /\ \E reply \in Replies, body \in IssueLists :
        /\ Step(c, "issues", reply)
        /\ LET r == _get_issues(reply, body) IN
            IF r.raised THEN Return(c, SonarCloudError(r.msg))
            ELSE call' = [call EXCEPT ![c].pc = "hotspots", ![c].issues = r.value]
    /\ UNCHANGED sonarcloud_token
    /\ UNCHANGED <<facadeVars, summaryVars>>

GetSecurityHotspots(c) ==
    /\ call[c].pc = "hotspots"
    /\ \E reply \in Replies, body \in HotspotLists :
        /\ Step(c, "hotspots", reply)
        /\ LET r == _get_security_hotspots(reply, body) IN
            IF r.raised THEN Return(c, SonarCloudError(r.msg))
            ELSE call' = [call EXCEPT ![c].pc = "metrics", ![c].hotspots = r.value]
    /\ UNCHANGED sonarcloud_token
    /\ UNCHANGED <<facadeVars, summaryVars>>

GetMetrics(c) ==
    /\ call[c].pc = "metrics"
    /\ \E reply \in Replies, body \in MetricMaps :
        /\ Step(c, "metrics", reply)
        /\ LET r == _get_metrics(reply, body) IN
            IF r.raised THEN Return(c, SonarCloudError(r.msg))
            ELSE call' = [call EXCEPT ![c].pc = "delete", ![c].metrics = r.value]
    /\ UNCHANGED sonarcloud_token
    /\ UNCHANGED <<facadeVars, summaryVars>>

DeleteProject(c) ==
    /\ call[c].pc = "delete"
    /\ \E reply \in Replies :
        /\ Step(c, "delete", reply)
        /\ LET r == _delete_project(reply) IN
            IF r.raised THEN Return(c, SonarCloudError(r.msg)) ELSE Goto(c, "format")
    /\ UNCHANGED sonarcloud_token
    /\ UNCHANGED <<facadeVars, summaryVars>>

FormatResults(c) ==
    /\ call[c].pc = "format"
    /\ LET r == _format_results(call[c].issues, call[c].hotspots, call[c].metrics) IN
        IF r.raised THEN Return(c, SonarCloudError(r.msg))
        ELSE Return(c, r.value)
    /\ UNCHANGED <<sonarcloud_token, steps>>
    /\ UNCHANGED <<facadeVars, summaryVars>>

InitFacadeIdle ==
    /\ gemini_api_key = ""
    /\ facade = [pc |-> "idle"]
    /\ net = << >>

\* no summary function is under test
NoSummary == [fn |-> "none"]

Init ==
    /\ sonarcloud_token \in {"", "token"}
    /\ call = [c \in Callers |-> IdleCall]
    /\ steps = [c \in Callers |-> << >>]
    /\ InitFacadeIdle
    /\ summary_call = NoSummary

Next ==
    \E c \in Callers :
        \/ AnalyzeWithSonarcloud(c)
        \/ CreateProject(c)
        \/ WriteSource(c)
        \/ SubmitSource(c)
        \/ TriggerAnalysis(c)
        \/ Wait(c)
        \/ GetIssues(c)
        \/ GetSecurityHotspots(c)
        \/ GetMetrics(c)
        \/ DeleteProject(c)
        \/ FormatResults(c)

Spec == Init /\ [][Next]_vars

----------------------------------------------------------------------------
(* CodeQualityAnalyzer: the inputs of the local analysis.                   *)
(* A code text is its lines; a line is one of a few texts, and what the     *)
(* regular expressions and the Python parser make of each is tabulated.     *)

\* how many lines a code text has at most
MaxLines == 2

LineTexts ==
    { "x = 1",
      "from os import *",
      "print(x)",
      "def f(:",
      "def f(a, b, c, d, e, g): return a",
      "def g(): x = 1; x = 1; <31 statements in all>" }

RECURSIVE SeqsUpTo(_, _)
SeqsUpTo(S, n) ==
    IF n = 0 THEN {<< >>}
    ELSE LET shorter == SeqsUpTo(S, n - 1) IN
         shorter \cup {Append(q, x) : q \in {t \in shorter : Len(t) = n - 1}, x \in S}

Codes == SeqsUpTo(LineTexts, MaxLines)

FacadeFilenames == {"", "main.py", "notes.txt"}

\* self.code_smells, in insertion order. lookbehind: whether the pattern
\* holds a look-behind whose body has no fixed width, as (?<!#.*) has
code_smells ==
    << [pattern |-> "import \\*", lookbehind |-> "none",
        message |-> "Avoid wildcard imports as they can lead to namespace pollution"],
       [pattern |-> "except:(?!\\s*#)", lookbehind |-> "none",
        message |-> "Avoid bare except clauses; catch specific exceptions"],
       [pattern |-> "print\\(", lookbehind |-> "none",
        message |-> "Consider using logging instead of print statements in production code"],
       [pattern |-> "\\.get\\([^)]*\\)(?!\\s*\\.)", lookbehind |-> "none",
        message |-> "Dictionary get() calls should provide a default value"],
       [pattern |-> "os\\.path\\.join\\(.*?\\+.*?\\)", lookbehind |-> "none",
        message |-> "Use os.path.join for path concatenation instead of string concatenation"],
       [pattern |-> "for\\s+\\w+\\s+in\\s+range\\(len\\((\\w+)\\)\\)", lookbehind |-> "none",
        message |-> "Consider using enumerate() instead of range(len())"],
       [pattern |-> "(?<!#.*)TODO|FIXME", lookbehind |-> "variable",
        message |-> "Resolve TODO/FIXME comments before finalizing code"],
       [pattern |-> "\\bpass\\b", lookbehind |-> "none",
        message |-> "Empty pass statements might indicate incomplete code"],
       [pattern |-> "if\\s+(\\w+)\\s*==\\s*True|if\\s+(\\w+)\\s*==\\s*False", lookbehind |-> "none",
        message |-> "Redundant comparison with boolean literals"] >>

\* whether the pattern matches in the line (each of the lines above holds at
\* most one match of any pattern)
MatchesLine(pattern, line) ==
    \/ pattern = "import \\*" /\ line = "from os import *"
    \/ pattern = "print\\(" /\ line = "print(x)"

\* the compilation of a pattern by the re module: a look-behind must have a
\* fixed width
re_compile(rule) ==
    IF rule.lookbehind = "variable"
    THEN Raised("re.error: look-behind requires fixed-width pattern")
    ELSE Returned(rule.pattern)

\* re.finditer(pattern, code): the line numbers of the matches, in text order
\* (code[:match.start()].count('\n') + 1 for each)
re_finditer(rule, code) ==
    LET compiled == re_compile(rule) IN
    IF compiled.raised THEN compiled
    ELSE Returned(SelectSeq([i \in 1..Len(code) |-> i],
                            LAMBDA i : MatchesLine(rule.pattern, code[i])))

PatternFinding(line_number, message) ==
    [line |-> line_number, message |-> message,
     severity |-> "warning", type |-> "code_smell"]

\* the loop of _check_local_patterns from rule k on, issues found so far
RECURSIVE CheckPatternsFrom(_, _, _)
CheckPatternsFrom(k, code, issues) ==
    IF k > Len(code_smells) THEN Returned(issues)
    ELSE LET matches == re_finditer(code_smells[k], code) IN
         IF matches.raised THEN matches
         ELSE CheckPatternsFrom(k + 1, code,
                issues \o [j \in 1..Len(matches.value) |->
                             PatternFinding(matches.value[j], code_smells[k].message)])

_check_local_patterns(code) == CheckPatternsFrom(1, code, << >>)

\* what ast.parse makes of a line: a syntax error, or the function
\* definitions in it with len(node.body) and len(node.args.args)
ParseLine(line) ==
    CASE line = "def f(:" ->
            [syntax_error |-> TRUE, functions |-> << >>]
      [] line = "def f(a, b, c, d, e, g): return a" ->
            [syntax_error |-> FALSE,
             functions |-> <<[name |-> "f", body_lines |-> 1, arg_count |-> 6]>>]
      [] line = "def g(): x = 1; x = 1; <31 statements in all>" ->
            [syntax_error |-> FALSE,
             functions |-> <<[name |-> "g", body_lines |-> 31, arg_count |-> 0]>>]
      [] OTHER ->
            [syntax_error |-> FALSE, functions |-> << >>]

SyntaxErrorLines(code) == {i \in 1..Len(code) : ParseLine(code[i]).syntax_error}

Min(S) == CHOOSE x \in S : \A y \in S : x <= y

FunctionFindings(lineno, node) ==
    (IF node.body_lines > 30
     THEN <<[line |-> lineno, message |-> "Function is too long. Consider refactoring.",
             name |-> node.name, n |-> node.body_lines,
             severity |-> "warning", type |-> "complexity"]>>
     ELSE << >>)
    \o
    (IF node.arg_count > 5
     THEN <<[line |-> lineno, message |-> "Function has too many parameters. Consider refactoring.",
             name |-> node.name, n |-> node.arg_count,
             severity |-> "warning", type |-> "complexity"]>>
     ELSE << >>)

\* the walk over the tree of the lines from i on
RECURSIVE WalkFrom(_, _)
WalkFrom(i, code) ==
    IF i > Len(code) THEN << >>
    ELSE LET fs == ParseLine(code[i]).functions IN
         (IF fs = << >> THEN << >> ELSE FunctionFindings(i, fs[1]))
         \o WalkFrom(i + 1, code)

\* _check_ast_patterns: SyntaxError is caught and becomes one finding
_check_ast_patterns(code) ==
    IF SyntaxErrorLines(code) # {}
    THEN <<[line |-> Min(SyntaxErrorLines(code)), message |-> "Syntax error: <str(e)>",
            name |-> "", n |-> 0,
            severity |-> "error", type |-> "syntax"]>>
    ELSE WalkFrom(1, code)

\* filename.endswith('.py')
EndsWithPy(filename) == filename = "main.py"

Max2(a, b) == IF a > b THEN a ELSE b
Min2(a, b) == IF a < b THEN a ELSE b

\* _generate_summary of the facade with the tier limits counted into the
\* better tier
_generate_summary_local_inclusive(issues, loc, complexity) ==
    IF issues = << >>
    THEN [text |-> "No issues detected. Code appears to follow good practices.",
          issue_count |-> 0, loc |-> loc, quality |-> ""]
    ELSE LET issue_count == Len(issues)
             quality == IF issue_count * 100 <= 2 * Max2(1, loc) THEN "good"
                        ELSE IF issue_count * 100 <= 5 * Max2(1, loc) THEN "acceptable"
                        ELSE "needs improvement"
         IN [text |-> "Found <issue_count> issues in <loc> lines of code. Overall quality is <quality>.",
             issue_count |-> issue_count, loc |-> loc, quality |-> quality]

\* CodeQualityAnalyzer._generate_summary: issue_count / max(1, loc) * 100
\* against 2 and 5, compared without the division
_generate_summary_local(issues, loc, complexity) ==
    IF issues = << >>
    THEN [text |-> "No issues detected. Code appears to follow good practices.",
          issue_count |-> 0, loc |-> loc, quality |-> ""]
    ELSE LET issue_count == Len(issues)
             quality == IF issue_count * 100 < 2 * Max2(1, loc) THEN "good"
                        ELSE IF issue_count * 100 < 5 * Max2(1, loc) THEN "acceptable"
                        ELSE "needs improvement"
         IN [text |-> "Found <issue_count> issues in <loc> lines of code. Overall quality is <quality>.",
             issue_count |-> issue_count, loc |-> loc, quality |-> quality]

\* CodeQualityAnalyzer.analyze_code: nothing here catches what a checker raises
analyze_code(code, filename) ==
    LET found == _check_local_patterns(code) IN
    IF found.raised THEN found
    ELSE LET issues == IF EndsWithPy(filename)
                       THEN found.value \o _check_ast_patterns(code)
                       ELSE found.value
             loc == Len(code)
             complexity_score == Min2(10, Max2(1, (Len(issues) \div 5) + 1))
         IN Returned(
              [issues |-> issues,
               metrics |-> [lines_of_code |-> loc,
                            complexity_score |-> complexity_score,
                            issue_count |-> Len(issues)],
               summary |-> _generate_summary_local(issues, loc, complexity_score)])

----------------------------------------------------------------------------
(* CodeQualityAnalyzer.analyze_with_ai *)

\* the text of the first candidate, as the pieces the search pattern tells
\* apart: prose, a block fenced as json, an object literal opening with "issues"
JsonTexts ==
    { "{\"issues\": [], \"suggestions\": [], \"summary\": \"fine\"}",
      "{\"issues\": [], \"error\": \"e\", \"message\": \"m\"}",
      "{\"issues\": [" }

Pieces ==
    [kind : {"prose"}, text : {"Here is my review."}]
    \cup [kind : {"fenced", "bare"}, text : JsonTexts]

ResultTexts ==
    {<<p>> : p \in Pieces}
    \cup {<<p, q>> : p \in [kind : {"fenced"}, text : JsonTexts],
                     q \in [kind : {"prose"}, text : {"Here is my review."}]}

\* the body of a 200 reply: with or without candidates[0].content.parts[0].text
AiBodies ==
    [has_text : {TRUE}, text : ResultTexts]
    \cup [has_text : {FALSE}, text : {<< >>}]

\* json.loads
json_loads(text) ==
    CASE text = "{\"issues\": [], \"suggestions\": [], \"summary\": \"fine\"}" ->
            Returned([issues |-> << >>, suggestions |-> << >>, summary |-> "fine"])
      [] text = "{\"issues\": [], \"error\": \"e\", \"message\": \"m\"}" ->
            Returned([issues |-> << >>, error |-> "e", message |-> "m"])
      [] OTHER -> Raised("JSONDecodeError")

\* re.search of the two alternatives: the leftmost piece either one matches
JsonPieces(result_text) == SelectSeq(result_text, LAMBDA p : p.kind # "prose")

\* os.path.splitext(filename)[1].lstrip('.'), or "unknown"
Language(filename) ==
    CASE filename = "main.py" -> "py"
      [] filename = "notes.txt" -> "txt"
      [] OTHER -> "unknown"

RawResponse(result_text) ==
    [raw_response |-> result_text, issues |-> << >>,
     suggestions |-> <<"Unable to parse AI response as JSON">>,
     summary |-> "AI analysis completed but results could not be structured properly."]

\* a variant that posts the prompt before it looks at the credential
analyze_with_ai_eager(api_key, code, filename, reply, body) ==
    [requests |-> <<[url |-> "<GEMINI_API_URL>?key=<gemini_api_key>",
                     language |-> Language(filename), code |-> code]>>,
     value |->
        IF api_key = ""
        THEN [error |-> "API key is required for AI-powered analysis"]
        ELSE [error |-> "Failed to analyze with AI", message |-> "ConnectionError"]]

\* what analyze_with_ai returns, and the requests it made on the way
analyze_with_ai(api_key, code, filename, reply, body) ==
    IF api_key = ""
    THEN [value |-> [error |-> "API key is required for AI-powered analysis"],
          requests |-> << >>]
    ELSE
    [requests |-> <<[url |-> "<GEMINI_API_URL>?key=<gemini_api_key>",
                     language |-> Language(filename), code |-> code]>>,
     value |->
        IF reply.exc
        THEN [error |-> "Failed to analyze with AI", message |-> "ConnectionError"]
        ELSE IF reply.status # 200
        THEN [error |-> "API error: <status_code>", message |-> "<response.text>"]
        ELSE IF ~body.has_text
        THEN [error |-> "Failed to analyze with AI", message |-> "KeyError"]
        ELSE LET found == JsonPieces(body.text) IN
             IF found = << >> THEN RawResponse(body.text)
             ELSE LET parsed == json_loads(found[1].text) IN
                  IF parsed.raised THEN RawResponse(body.text) ELSE parsed.value]

----------------------------------------------------------------------------
(* The facade's caller: one call of one entry point *)

\* the code text and the filename of a call, what it returned or the
\* exception that left it
Outcome(entry, code, filename, raised, value) ==
    [pc |-> "done", entry |-> entry, code |-> code, filename |-> filename,
     raised |-> raised, value |-> value]

AnalyzeCode ==
    /\ facade.pc = "idle"
    /\ \E code \in Codes, filename \in FacadeFilenames :
        LET r == analyze_code(code, filename) IN
        facade' = Outcome("analyze_code", code, filename, r.msg,
                          IF r.raised THEN NoResult ELSE r.value)
    /\ net' = << >>
    /\ UNCHANGED gemini_api_key
    /\ UNCHANGED <<remoteVars, summaryVars>>

AnalyzeWithAi ==
    /\ facade.pc = "idle"
    /\ \E code \in Codes, filename \in FacadeFilenames,
          reply \in Replies, body \in AiBodies :
        LET r == analyze_with_ai(gemini_api_key, code, filename, reply, body) IN
        /\ facade' = Outcome("analyze_with_ai", code, filename, "", r.value)
        /\ net' = r.requests
    /\ UNCHANGED gemini_api_key
    /\ UNCHANGED <<remoteVars, summaryVars>>

InitFacade ==
    /\ gemini_api_key \in {"", "key"}
    /\ facade = [pc |-> "idle"]
    /\ net = << >>
    /\ sonarcloud_token = ""
    /\ call = [c \in Callers |-> IdleCall]
    /\ steps = [c \in Callers |-> << >>]
    /\ summary_call = NoSummary

NextFacade == AnalyzeCode \/ AnalyzeWithAi

SpecFacade == InitFacade /\ [][NextFacade]_vars

----------------------------------------------------------------------------
(* What the claims speak of *)

\* the protocol of the remote adapter
Protocol ==
    <<"create", "submit", "trigger", "wait", "issues", "hotspots", "metrics", "delete">>

Ops(c) == [i \in 1..Len(steps[c]) |-> steps[c][i].op]

IsPrefix(p, q) == Len(p) <= Len(q) /\ \A i \in 1..Len(p) : p[i] = q[i]

Did(c, op) == \E i \in 1..Len(steps[c]) : steps[c][i].op = op

\* caller c made request op and it ended with answer a
Ended(c, op, a) ==
    \E i \in 1..Len(steps[c]) : steps[c][i].op = op /\ steps[c][i].answer = a

Failed(c, op) == Ended(c, op, "rejected") \/ Ended(c, op, "exception")

Done(c) == call[c].pc = "done"

\* the create request was answered with success and the adapter took the
\* project as created
CreateSucceeded(c) ==
    /\ Ended(c, "create", "ok")
    /\ call[c].result # SonarCloudError("Failed to create project: <response.text>")

\* _format_results does not raise on what caller c has fetched
Formats(c) ==
    ~_format_results(call[c].issues, call[c].hotspots, call[c].metrics).raised

IsSuccessShaped(r) == DOMAIN r = {"issues", "metrics", "summary"}
IsErrorShaped(r) == DOMAIN r = {"error", "message"}

\* C1: whenever the project-creation request succeeded, a delete request for
\* the same project has been sent by the time the call returns, whatever the
\* result.
C1_DeleteOnEveryExit ==
    \A c \in Callers :
        (Done(c) /\ CreateSucceeded(c)) =>
            \E i \in 1..Len(steps[c]) :
                /\ steps[c][i].op = "delete"
                /\ steps[c][i].project = call[c].project_key

\* C2: every public entry point returns a value and never raises, and the
\* value is success-shaped or an error object with exactly the fields error
\* and message.
C2_EntryPointsReturnShaped ==
    /\ \A c \in Callers :
        Done(c) => (IsSuccessShaped(call[c].result) \/ IsErrorShaped(call[c].result))
    /\ facade.pc = "done" =>
        /\ facade.raised = ""
        /\ \/ IsErrorShaped(facade.value)
           \/ /\ {"issues", "summary"} \subseteq DOMAIN facade.value
              /\ DOMAIN facade.value \cap {"error", "message"} = {}

\* C3: the local analysis never throws and always returns a result with
\* issues, metrics and summary.
C3_LocalNeverThrows ==
    (facade.pc = "done" /\ facade.entry = "analyze_code") =>
        /\ facade.raised = ""
        /\ IsSuccessShaped(facade.value)

\* C4: the steps of a call are a prefix of the protocol, a step is taken only
\* after every earlier create, submit, trigger and issues request was answered
\* with success, and a success-shaped result is returned only after the whole
\* protocol.
C4_StrictSequence ==
    \A c \in Callers :
        /\ IsPrefix(Ops(c), Protocol)
        /\ \A i \in 1..Len(steps[c]) : \A j \in 1..(i - 1) :
              steps[c][j].op \in {"create", "submit", "trigger", "issues"}
                  => steps[c][j].answer = "ok"
        /\ (Done(c) /\ IsSuccessShaped(call[c].result)) => Ops(c) = Protocol

C4_Witness ==
    \E c \in Callers :
        Done(c) /\ IsSuccessShaped(call[c].result) /\ Ops(c) = Protocol

\* C5: when the issue fetch succeeded, a failure of the hotspot fetch or of
\* the metrics fetch (a non-success status or a transport failure) is not
\* fatal: with nothing else going wrong the call returns a success-shaped
\* result, whose findings are the issue-derived ones alone when it was the
\* hotspot fetch that failed.
C5_SubFetchFailureTolerated ==
    \A c \in Callers :
        ( /\ Done(c)
          /\ Ended(c, "issues", "ok")
          /\ Failed(c, "hotspots") \/ Failed(c, "metrics")
          /\ ~Failed(c, "delete")
          /\ Formats(c) )
        => /\ IsSuccessShaped(call[c].result)
           /\ Failed(c, "hotspots") =>
                call[c].result.issues = FormatIssues(call[c].issues)

\* C6: when create, submit, trigger and the three fetches succeeded, a failure
\* of the delete request (a non-success status or a transport failure) is
\* swallowed and the call returns the success-shaped result.
C6_DeleteFailureSwallowed ==
    \A c \in Callers :
        ( /\ Done(c)
          /\ \A op \in {"create", "submit", "trigger", "issues", "hotspots", "metrics"} :
                Ended(c, op, "ok")
          /\ Failed(c, "delete")
          /\ Formats(c) )
        => IsSuccessShaped(call[c].result)

NoFetchNoDelete(c) ==
    \A op \in {"issues", "hotspots", "metrics", "delete"} : ~Did(c, op)

\* C7 as stated: when the submission or the trigger fails after the project
\* was created, the call ends with an error-shaped result whose error is
\* "Failed to run analysis", having sent no fetch and no delete request.
C7_AsStated ==
    \A c \in Callers :
        (CreateSucceeded(c) /\ (Failed(c, "submit") \/ Failed(c, "trigger"))) =>
            /\ Done(c)
            /\ IsErrorShaped(call[c].result)
            /\ call[c].result.error = "Failed to run analysis"
            /\ NoFetchNoDelete(c)

\* C7, amended: when the submission or the trigger fails after the project was
\* created, the call ends with an error-shaped result whose error is
\* "SonarCloud analysis failed" and whose message tells the failure ("Failed
\* to run analysis: ..." for a rejected submission, "Failed to submit
\* analysis: ..." for a rejected trigger, the exception's text for a transport
\* failure), having sent no fetch and no delete request.
C7_RunFailureLeavesProject ==
    \A c \in Callers :
        (CreateSucceeded(c) /\ (Failed(c, "submit") \/ Failed(c, "trigger"))) =>
            /\ Done(c)
            /\ IsErrorShaped(call[c].result)
            /\ call[c].result.error = "SonarCloud analysis failed"
            /\ call[c].result.message =
                 ( IF Ended(c, "submit", "rejected")
                   THEN "Failed to run analysis: <response.text>"
                   ELSE IF Ended(c, "trigger", "rejected")
                   THEN "Failed to submit analysis: <response.text>"
                   ELSE "ConnectionError" )
            /\ NoFetchNoDelete(c)

C7_Witness ==
    \E c \in Callers :
        Done(c) /\ CreateSucceeded(c) /\ Ended(c, "trigger", "rejected")

\* C8 as stated: when the create request fails, the call ends with an
\* error-shaped result whose error is "Failed to create project", and no later
\* step is taken.
C8_AsStated ==
    \A c \in Callers :
        Failed(c, "create") =>
            /\ Done(c)
            /\ IsErrorShaped(call[c].result)
            /\ call[c].result.error = "Failed to create project"
            /\ Ops(c) = <<"create">>

\* C8, amended: when the create request fails, the call ends with an
\* error-shaped result whose error is "SonarCloud analysis failed" and whose
\* message is "Failed to create project: ..." (for a rejected request) or the
\* exception's text (for a transport failure), and no later step is taken.
C8_CreateFailureAborts ==
    \A c \in Callers :
        Failed(c, "create") =>
            /\ Done(c)
            /\ IsErrorShaped(call[c].result)
            /\ call[c].result.error = "SonarCloud analysis failed"
            /\ call[c].result.message =
                 ( IF Ended(c, "create", "rejected")
                   THEN "Failed to create project: <response.text>"
                   ELSE "ConnectionError" )
            /\ Ops(c) = <<"create">>

C8_Witness ==
    \E c \in Callers : Done(c) /\ Ended(c, "create", "rejected")

\* C9: without a generative API credential analyze_with_ai returns the error
\* object "API key is required..." and sends no request; a request is sent
\* only with the credential present.
C9_NoKeyNoRequest ==
    (facade.pc = "done" /\ facade.entry = "analyze_with_ai") =>
        /\ gemini_api_key = "" =>
              /\ DOMAIN facade.value = {"error"}
              /\ facade.value.error = "API key is required for AI-powered analysis"
              /\ net = << >>
        /\ net # << >> => gemini_api_key # ""

C9_Witness ==
    /\ facade.pc = "done"
    /\ facade.entry = "analyze_with_ai"
    /\ gemini_api_key = ""
    /\ net = << >>

\* C10: the project identifiers of any two calls are distinct.
C10_DistinctIdentifiers ==
    \A c \in Callers, d \in Callers :
        (c # d /\ call[c].project_key # 0 /\ call[d].project_key # 0)
            => call[c].project_key # call[d].project_key

----------------------------------------------------------------------------
(* The two summary functions on their own *)

\* the issue counts and the line counts _generate_summary of the facade is
\* tried on
MaxIssueCount == 6
MaxLoc == 100

\* the metric maps _generate_summary of the adapter is tried on
SummaryMetricMaps ==
    MetricMaps
    \cup [ncloc : {"0", "12"},
          bugs : {"0", "1", "2"},
          vulnerabilities : {"0", "1", "2"},
          code_smells : {"0", "1", "2"},
          duplicated_lines_density : {"10", "10.1", "12.5"}]

SummaryInput(fn, metrics, issue_count, loc) ==
    [fn |-> fn, metrics |-> metrics, issue_count |-> issue_count, loc |-> loc,
     done |-> FALSE, out |-> Returned(NoResult)]

\* a list of n findings
Findings(n) == [i \in 1..n |-> PatternFinding(i, "")]

\* SonarCloudAnalyzer._generate_summary(issues, metrics)
RemoteSummary ==
    /\ summary_call.fn = "_generate_summary"
    /\ ~summary_call.done
    /\ summary_call' =
         [summary_call EXCEPT
            !.done = TRUE,
            !.out = _generate_summary(<< >>, summary_call.metrics)]
    /\ UNCHANGED <<remoteVars, facadeVars>>

\* CodeQualityAnalyzer._generate_summary(issues, loc, complexity), the
\* complexity as analyze_code computes it
LocalSummary ==
    /\ summary_call.fn = "_generate_summary_local"
    /\ ~summary_call.done
    /\ summary_call' =
         [summary_call EXCEPT
            !.done = TRUE,
            !.out = Returned(_generate_summary_local(
                        Findings(summary_call.issue_count),
                        summary_call.loc,
                        Min2(10, Max2(1, (summary_call.issue_count \div 5) + 1))))]
    /\ UNCHANGED <<remoteVars, facadeVars>>

InitSummary ==
    /\ summary_call \in
         {SummaryInput("_generate_summary", m, 0, 0) : m \in SummaryMetricMaps}
         \cup {SummaryInput("_generate_summary_local", EmptyMap, n, l) :
                 n \in 0..MaxIssueCount, l \in 0..MaxLoc}
    /\ sonarcloud_token = ""
    /\ call = [c \in Callers |-> IdleCall]
    /\ steps = [c \in Callers |-> << >>]
    /\ InitFacadeIdle

NextSummary == RemoteSummary \/ LocalSummary

SpecSummary == InitSummary /\ [][NextSummary]_vars

\* the numbers of a metric map, 0 for a metric it does not hold
Metric(metrics, k) == IntOf(MetricGet(metrics, k))

\* the reference algorithm of C11, on a map of numeric metrics
C11_Reference(metrics) ==
    LET loc == Metric(metrics, "ncloc")
        bugs == Metric(metrics, "bugs")
        vulnerabilities == Metric(metrics, "vulnerabilities")
        smells == Metric(metrics, "code_smells")
        duplication == FloatOf(MetricGet(metrics, "duplicated_lines_density"))
        phrases ==
            (IF bugs > 0
             THEN <<<<bugs, IF bugs = 1 THEN " potential bug" ELSE " potential bugs">>>>
             ELSE << >>)
            \o (IF vulnerabilities > 0
                THEN <<<<vulnerabilities,
                         IF vulnerabilities = 1 THEN " security issue"
                                                ELSE " security issues">>>>
                ELSE << >>)
            \o (IF smells > 0
                THEN <<<<smells,
                         IF smells = 1 THEN " code smell" ELSE " code smells">>>>
                ELSE << >>)
            \o (IF duplication > 100
                THEN <<<<duplication, "% code duplication">>>>
                ELSE << >>)
    IN  IF loc = 0
        THEN [text |-> "No code detected for analysis.", phrases |-> << >>, loc |-> 0]
        ELSE IF phrases = << >>
        THEN [text |-> "No significant issues found in <loc> lines of code. Good job!",
              phrases |-> << >>, loc |-> loc]
        ELSE [text |-> "Found <phrases> in <loc> lines of code.",
              phrases |-> phrases, loc |-> loc]

\* a summary of the adapter as its text, its phrases (count and wording) and
\* its line count
Sentence(v) ==
    [text |-> v.text,
     phrases |-> [i \in 1..Len(v.phrases) |-> <<v.phrases[i].n, v.phrases[i].words>>],
     loc |-> v.loc]

NumericMetrics(metrics) ==
    /\ \A k \in DOMAIN metrics \ {"duplicated_lines_density", "complexity"} :
          IsInt(metrics[k])
    /\ IsFloat(MetricGet(metrics, "duplicated_lines_density"))

\* C11: on every map of numeric metrics the adapter's summary is the one of
\* the reference algorithm: "No code detected for analysis." for 0 lines of
\* code; else the phrases for bugs, security issues, code smells and
\* duplication above 10, in this order and with singular and plural wording,
\* joined into "Found ... in <loc> lines of code.", or "No significant issues
\* found in <loc> lines of code. Good job!" with no phrase.
C11_SummaryAsReference ==
    ( /\ summary_call.fn = "_generate_summary"
      /\ summary_call.done
      /\ NumericMetrics(summary_call.metrics) )
    => /\ ~summary_call.out.raised
       /\ Sentence(summary_call.out.value) = C11_Reference(summary_call.metrics)

\* C12: the facade's summary of at least one issue names the tier of the
\* density issue_count / max(1, loc) * 100: "good" below 2, "acceptable" from
\* 2 to below 5, "needs improvement" from 5 on (so for any issue in 0 lines);
\* with no issue it is the fixed sentence, whatever the line count.
C12_DensityTiers ==
    ( /\ summary_call.fn = "_generate_summary_local"
      /\ summary_call.done )
    => LET n == summary_call.issue_count
           lines == IF summary_call.loc < 1 THEN 1 ELSE summary_call.loc
           v == summary_call.out.value
       IN  IF n = 0
           THEN v.text = "No issues detected. Code appears to follow good practices."
           ELSE /\ v.text = "Found <issue_count> issues in <loc> lines of code. Overall quality is <quality>."
                /\ v.issue_count = n
                /\ v.loc = summary_call.loc
                /\ (v.quality = "good") = (50 * n < lines)
                /\ (v.quality = "acceptable") = (50 * n >= lines /\ 20 * n < lines)
                /\ (v.quality = "needs improvement") = (20 * n >= lines)

\* a density of exactly 2 (2 issues in 100 lines) has been summarised
C12_Witness ==
    /\ summary_call.fn = "_generate_summary_local"
    /\ summary_call.done
    /\ summary_call.issue_count = 2
    /\ summary_call.loc = 100
    /\ summary_call.out.value.quality = "acceptable"

====
